---- MODULE Spec2Model ----
(***************************************************************************)
(* Nutrition checker (Streamlit): food detection -> catalog matching ->    *)
(* nutrient aggregation.  The repository holds four variants of the same   *)
(* app; the model carries the variant as a state variable that is chosen   *)
(* at start-up and never changes:                                          *)
(*   "Streamlitapp"   src/Streamlitapp.py    BLIP caption, translate_hints *)
(*                                           and the compound-dish rules   *)
(*   "stleamlit_app"  src/stleamlit_app.py   ViT-GPT2, several candidate   *)
(*                                           captions, keyword_map         *)
(*   "streamlit_app"  src/streamlit_app.py   Gemini REST, JSON food list   *)
(*   "stleamlit_apps" src/stleamlit_apps.py  Gemini SDK, comma separated   *)
(*                                           text                          *)
(* Food identifiers are Japanese in the source; TLA+ strings are ASCII, so *)
(* the model writes them in romaji:                                        *)
(*   Gohan = ごはん, Toriniku = 鶏肉, Tamago = 卵, Yudetamago = ゆで卵,    *)
(*   Burokkori = ブロッコリー, Ringo = リンゴ, Oyakodon = 親子丼,          *)
(*   Katsudon = カツ丼, Pasuta = パスタ, Chahan = 炒飯, Gyudon = 牛丼,     *)
(*   Kurowassan = クロワッサン, PurenYoguruto = プレーンヨーグルト,        *)
(*   Ichigo = イチゴ, Razuberi = ラズベリー, Tosuto = トースト,            *)
(*   Jamu = ジャム, Gyunyu = 牛乳, Shiriaru = シリアル, Pankeki = パンケーキ,*)
(*   FurenchiTosuto = フレンチトースト, Shokupan = 食パン,                 *)
(*   Bagetto = バゲット, Horenso = ほうれん草, Natto = 納豆,               *)
(*   Misoshiru = 味噌汁, Sake = 鮭, Tofu = 豆腐, Suteki = ステーキ,        *)
(*   Hanbagu = ハンバーグ, KareRaisu = カレーライス, Ramen = ラーメン,     *)
(*   Gyoza = 餃子, Sandoitchi = サンドイッチ, Tenpura = 天ぷら,            *)
(*   Yakizakana = 焼き魚, Ebichiri = エビチリ, Tomato = トマト,            *)
(*   Ninjin = 人参, Kyuri = きゅうり, Tamanegi = 玉ねぎ,                   *)
(*   Jagaimo = じゃがいも, Sarada = サラダ, Banana = バナナ,               *)
(*   Abokado = アボカド, Chokoreto = チョコレート, Kukki = クッキー,       *)
(*   Aisukurimu = アイスクリーム, Donatsu = ドーナツ,                      *)
(*   PotetoChippusu = ポテトチップス, Kohi = コーヒー, Piza = ピザ         *)
(* Meal types: Choshoku = 朝食, Chushoku = 昼食, Yushoku = 夕食,           *)
(*   Oyatsu = おやつ.                                                      *)
(***************************************************************************)
EXTENDS Integers, Sequences, FiniteSets, TLC

(***************************************************************************)
(* Text, as Python str: lower(), the `in` substring test, split, strip.    *)
(***************************************************************************)
UpperLetters == "ABCDEFGHIJKLMNOPQRSTUVWXYZ"

LowerLetters == "abcdefghijklmnopqrstuvwxyz"

\* one character of str.lower()
LowerChar(c) ==
  IF \E i \in 1..Len(UpperLetters) : SubSeq(UpperLetters, i, i) = c
  THEN LET i == CHOOSE j \in 1..Len(UpperLetters) : SubSeq(UpperLetters, j, j) = c
       IN  SubSeq(LowerLetters, i, i)
  ELSE c

RECURSIVE lower(_)
\* str.lower()
lower(s) ==
  IF Len(s) = 0 THEN ""
  ELSE LowerChar(SubSeq(s, 1, 1)) \o lower(SubSeq(s, 2, Len(s)))

\* Python `k in t` for two strings: k occurs anywhere in t
Contains(k, t) ==
  \E i \in 1..(Len(t) - Len(k) + 1) : SubSeq(t, i, i + Len(k) - 1) = k

\* the elements of a list
Range(s) == { s[i] : i \in 1..Len(s) }

\* `x in lst` for a Python list
InList(x, lst) == \E i \in 1..Len(lst) : lst[i] = x

\* a list holding no value twice
NoDuplicates(s) == \A i, j \in 1..Len(s) : s[i] = s[j] => i = j

(***************************************************************************)
(* Keyword dictionaries, in the source's insertion order.                  *)
(***************************************************************************)
translate_hints ==
  << <<"croissant", "Kurowassan">>, <<"yogurt", "PurenYoguruto">>,
     <<"strawberry", "Ichigo">>, <<"raspberry", "Razuberi">>, <<"toast", "Tosuto">>,
     <<"jam", "Jamu">>, <<"milk", "Gyunyu">>, <<"cereal", "Shiriaru">>,
     <<"boiled egg", "Yudetamago">>, <<"pancake", "Pankeki">>,
     <<"french toast", "FurenchiTosuto">>, <<"bread", "Shokupan">>,
     <<"baguette", "Bagetto">>, <<"rice", "Gohan">>, <<"chicken", "Toriniku">>,
     <<"spinach", "Horenso">>, <<"egg", "Tamago">>, <<"natto", "Natto">>,
     <<"miso soup", "Misoshiru">>, <<"salmon", "Sake">>, <<"tofu", "Tofu">>,
     <<"pasta", "Pasuta">>, <<"spaghetti", "Pasuta">>, <<"steak", "Suteki">>,
     <<"hamburger", "Hanbagu">>, <<"curry", "KareRaisu">>, <<"ramen", "Ramen">>,
     <<"noodles", "Ramen">>, <<"dumpling", "Gyoza">>, <<"gyoza", "Gyoza">>,
     <<"fried rice", "Chahan">>, <<"sandwich", "Sandoitchi">>, <<"katsudon", "Katsudon">>,
     <<"oyakodon", "Oyakodon">>, <<"gyudon", "Gyudon">>, <<"beef bowl", "Gyudon">>,
     <<"tempura", "Tenpura">>, <<"grilled fish", "Yakizakana">>, <<"shrimp", "Ebichiri">>,
     <<"tomato", "Tomato">>, <<"broccoli", "Burokkori">>, <<"carrot", "Ninjin">>,
     <<"cucumber", "Kyuri">>, <<"onion", "Tamanegi">>, <<"potato", "Jagaimo">>,
     <<"salad", "Sarada">>, <<"banana", "Banana">>, <<"apple", "Ringo">>,
     <<"avocado", "Abokado">>, <<"chocolate", "Chokoreto">>, <<"cookie", "Kukki">>,
     <<"ice cream", "Aisukurimu">>, <<"donut", "Donatsu">>, <<"chips", "PotetoChippusu">> >>

keyword_map ==
  << <<"croissant", "Kurowassan">>, <<"bread", "Shokupan">>, <<"toast", "Tosuto">>,
     <<"yogurt", "PurenYoguruto">>, <<"berry", "Razuberi">>, <<"berries", "Razuberi">>,
     <<"strawberry", "Ichigo">>, <<"fruit", "Ichigo">>, <<"jam", "Jamu">>,
     <<"milk", "Gyunyu">>, <<"coffee", "Kohi">>, <<"rice", "Gohan">>,
     <<"chicken", "Toriniku">>, <<"meat", "Toriniku">>, <<"egg", "Tamago">>,
     <<"salad", "Sarada">>, <<"soup", "Misoshiru">>, <<"pasta", "Pasuta">>,
     <<"pizza", "Piza">>, <<"fish", "Sake">>, <<"curry", "KareRaisu">>,
     <<"ramen", "Ramen">>, <<"noodle", "Ramen">>, <<"sandwich", "Sandoitchi">>,
     <<"burger", "Hanbagu">>, <<"tofu", "Tofu">> >>

(***************************************************************************)
(* The caption matcher of the auto-analyze handlers.                       *)
(***************************************************************************)
\* a faulty variant: the keyword has to stand as a word of its own
HintMatchesWholeWord(entry, caption, foods) ==
  /\ \E i \in 1..(Len(caption) - Len(entry[1]) + 1) :
       /\ SubSeq(caption, i, i + Len(entry[1]) - 1) = entry[1]
       /\ (i = 1 \/ SubSeq(caption, i - 1, i - 1) = " ")
       /\ (i + Len(entry[1]) - 1 = Len(caption)
           \/ SubSeq(caption, i + Len(entry[1]), i + Len(entry[1])) = " ")
  /\ InList(entry[2], foods)

\* one turn of `for eng, jpn in hints.items()`: the entry adds its identifier
\* when the keyword occurs in the caption and the identifier is a catalog food
HintMatches(entry, caption, foods) ==
  Contains(entry[1], caption) /\ InList(entry[2], foods)

RECURSIVE ScanFrom(_, _, _, _)
ScanFrom(hints, i, caption, foods) ==
  IF i > Len(hints) THEN << >>
  ELSE (IF HintMatches(hints[i], caption, foods) THEN << hints[i][2] >> ELSE << >>)
       \o ScanFrom(hints, i + 1, caption, foods)

\* the list `detected` after the keyword loop
KeywordScan(hints, caption, foods) == ScanFrom(hints, 1, caption, foods)

\* a faulty variant: the first rule reads "chicken" only
CompoundDishesChickenOnly(caption) ==
  IF Contains("rice", caption) /\ Contains("egg", caption)
  THEN (IF Contains("chicken", caption) THEN << "Oyakodon" >> ELSE << >>)
       \o
       (IF Contains("pork", caption) \/ Contains("cutlet", caption)
        THEN << "Katsudon" >> ELSE << >>)
  ELSE << >>

\* a faulty variant: the rules without the outer test for "rice" and "egg"
CompoundDishesUnguarded(caption) ==
  (IF Contains("chicken", caption) \/ Contains("meat", caption)
   THEN << "Oyakodon" >> ELSE << >>)
  \o
  (IF Contains("pork", caption) \/ Contains("cutlet", caption)
   THEN << "Katsudon" >> ELSE << >>)

\* the compound-dish inference of Streamlitapp.py: appended with no look at
\* the catalog
CompoundDishes(caption) ==
  IF Contains("rice", caption) /\ Contains("egg", caption)
  THEN (IF Contains("chicken", caption) \/ Contains("meat", caption)
        THEN << "Oyakodon" >> ELSE << >>)
       \o
       (IF Contains("pork", caption) \/ Contains("cutlet", caption)
        THEN << "Katsudon" >> ELSE << >>)
  ELSE << >>

\* `detected` of Streamlitapp.py before list(set(...))
DetectedBlip(caption, foods) ==
  KeywordScan(translate_hints, caption, foods) \o CompoundDishes(caption)

\* `detected` of stleamlit_app.py before list(set(...))
DetectedVit(combined_caption, foods) ==
  KeywordScan(keyword_map, combined_caption, foods)

(***************************************************************************)
(* Nutrient vectors.  The source holds Python numbers (int and float) read *)
(* from the CSV or written as literals with at most one decimal; the       *)
(* session model holds each quantity exactly, in tenths (168 kcal = 1680,  *)
(* 2.5 g = 25).  Where the binary rounding of float addition matters, the  *)
(* sum is modelled bit-exactly further down (Add64).                       *)
(***************************************************************************)
NutrientKeys == {"calories", "protein", "fat", "carbohydrates"}

Vec(c, p, f, ch) == [calories |-> c, protein |-> p, fat |-> f, carbohydrates |-> ch]

ZeroVec == Vec(0, 0, 0, 0)

Row(food, c, p, f, ch) == [food |-> food, vec |-> Vec(c, p, f, ch)]

(***************************************************************************)
(* food_nutrition.csv and the catalog load.  The file is a static input:   *)
(* [status, rows], status "ok" (parsed, has the food column), "missing"    *)
(* (FileNotFoundError), "unparseable" (pandas ParserError/EmptyDataError)  *)
(* or "no_food_column" (KeyError in drop_duplicates(subset=['food'])).     *)
(***************************************************************************)
File(status, rows) == [status |-> status, rows |-> rows]

\* a faulty variant: keep='first'
DropDuplicatesKeepFirst(rows) ==
  LET keep == { i \in 1..Len(rows) : \A j \in 1..(i - 1) : rows[j].food # rows[i].food }
      pick[i \in 0..Len(rows)] ==
        IF i = 0 THEN << >>
        ELSE IF i \in keep THEN Append(pick[i - 1], rows[i]) ELSE pick[i - 1]
  IN  pick[Len(rows)]

\* df.drop_duplicates(subset=['food'], keep='last'): a row stays when no later
\* row carries its food; the rows that stay keep their order
DropDuplicatesKeepLast(rows) ==
  LET keep == { i \in 1..Len(rows) :
                  \A j \in (i + 1)..Len(rows) : rows[j].food # rows[i].food }
      pick[i \in 0..Len(rows)] ==
        IF i = 0 THEN << >>
        ELSE IF i \in keep THEN Append(pick[i - 1], rows[i]) ELSE pick[i - 1]
  IN  pick[Len(rows)]

\* df.set_index('food').T.to_dict(): a dict built row by row
ToDict(rows) ==
  LET build[i \in 0..Len(rows)] ==
        IF i = 0 THEN << >>
        ELSE [f \in (DOMAIN build[i - 1]) \cup {rows[i].food} |->
                IF f = rows[i].food THEN rows[i].vec ELSE build[i - 1][f]]
  IN  build[Len(rows)]

\* list(df_cleaned['food'])
FoodColumn(rows) == [i \in 1..Len(rows) |-> rows[i].food]

\* the built-in catalog of Streamlitapp.py and stleamlit_app.py
DefaultRowsSmall == << Row("Gohan", 1680, 25, 3, 371) >>

\* the built-in catalog of streamlit_app.py and stleamlit_apps.py
DefaultRowsDemo ==
  << Row("Gohan", 1680, 25, 3, 371), Row("Toriniku", 1450, 230, 35, 0),
     Row("Burokkori", 330, 43, 3, 52), Row("Yudetamago", 760, 63, 53, 2),
     Row("Ringo", 540, 2, 1, 141) >>

Variants == {"Streamlitapp", "stleamlit_app", "streamlit_app", "stleamlit_apps"}

DefaultRows(v) ==
  IF v \in {"Streamlitapp", "stleamlit_app"} THEN DefaultRowsSmall ELSE DefaultRowsDemo

\* which failures of the load the variant's except clause catches:
\* a bare `except:` catches all, streamlit_app.py only FileNotFoundError
LoadCatches(v, status) ==
  IF v = "streamlit_app" THEN status = "missing" ELSE TRUE

\* the catalog load: [raised, dict, foods]
LoadCatalog(v, file) ==
  IF file.status = "ok"
  THEN LET cleaned == DropDuplicatesKeepLast(file.rows)
       IN  [raised |-> FALSE, dict |-> ToDict(cleaned), foods |-> FoodColumn(cleaned)]
  ELSE IF LoadCatches(v, file.status)
  THEN [raised |-> FALSE, dict |-> ToDict(DefaultRows(v)),
        foods |-> FoodColumn(DefaultRows(v))]
  ELSE [raised |-> TRUE, dict |-> << >>, foods |-> << >>]

(***************************************************************************)
(* Constants of the UI.                                                    *)
(***************************************************************************)
\* the keys of meal_ratios, the options of the meal-type selectbox
MealTypes == {"Choshoku", "Chushoku", "Yushoku", "Oyatsu"}

food_categories_Streamlitapp ==
  << <<"Choshoku",
        << "Kurowassan", "PurenYoguruto", "Ichigo", "Razuberi", "Tosuto", "Jamu", "Gyunyu",
           "Shiriaru", "Yudetamago", "Pankeki", "FurenchiTosuto", "Meronpan", "Anpan",
           "Shokupan", "Bagetto" >> >>,
     <<"ChushokuYushoku",
        << "Gohan", "Toriniku", "Horenso", "Tamago", "Natto", "Misoshiru", "Sake", "Tofu",
           "Pasuta", "Suteki", "Hanbagu", "KareRaisu", "Ramen", "Gyoza", "Chahan",
           "Sandoitchi", "Katsudon", "Oyakodon", "Gyudon", "Tenpura", "Yakizakana",
           "Nimono", "ButaNoKakuni", "MaboDofu", "Ebichiri" >> >>,
     <<"YasaiFurutsu",
        << "Tomato", "Burokkori", "Ninjin", "Kyuri", "Tamanegi", "Jagaimo", "Sarada",
           "Banana", "Ringo", "Abokado" >> >>,
     <<"Oyatsu",
        << "Chokoreto", "Kukki", "Aisukurimu", "Donatsu", "PotetoChippusu" >> >> >>

food_categories_streamlit_app ==
  << <<"Choshoku",
        << "Kurowassan", "PurenYoguruto", "Ichigo", "Razuberi", "Tosuto", "Jamu", "Gyunyu",
           "Shiriaru", "Yudetamago", "Pankeki", "FurenchiTosuto", "Meronpan", "Anpan",
           "Shokupan", "Bagetto", "KurowawassanSando" >> >>,
     <<"ChushokuYushoku",
        << "Gohan", "Toriniku", "Horenso", "Tamago", "Natto", "Misoshiru", "Sake", "Tofu",
           "Pasuta", "Suteki", "Hanbagu", "KareRaisu", "Ramen", "Gyoza", "Chahan",
           "Sandoitchi", "TsunaSando", "HamuChizuSando", "MikkusuSando", "Katsudon",
           "Oyakodon", "Gyudon", "Tenpura", "Zarusoba", "Udon", "Yakizakana", "Nimono",
           "HorensoNoOhitashi", "ButaNoKakuni", "MaboDofu", "Ebichiri", "Chinjaorosu",
           "Hoikoro", "Harumaki", "Shoronpo", "Yakisoba", "Okonomiyaki", "Takoyaki",
           "Chawanmushi", "Hiyayakko", "MisoKatsu", "TebasakiNoKaraage",
           "TorinikuNoTeriyaki", "Nikujaga", "SakanaNoNitsuke" >> >>,
     <<"BentoSozai",
        << "FuraidoPoteto", "Hanbaga", "KaniKurimuKorokke", "ToriNoKaraage",
           "ButaNoShogayaki" >> >>,
     <<"YasaiFurutsu",
        << "Tomato", "Burokkori", "Ninjin", "Kyuri", "Tamanegi", "Jagaimo", "Piman",
           "KaisoSarada", "Sarada", "Banana", "Ringo", "Abokado" >> >>,
     <<"Nomimono",
        << "Kohi", "OrenjiJusu", "KonSupu", "Sanratan" >> >>,
     <<"Sonota",
        << "Oribu", "MepuruShiroppu", "SaradaChikin", "PuroteinBa", "Amondo", "Pinattsu",
           "Kurumi", "KashuNattsu", "PotetoSarada", "ShizaSarada", "TofuSarada",
           "ChikinSarada" >> >>,
     <<"Oyatsu",
        << "Chokoreto", "Kukki", "Bisuketto", "Wagashi", "Donatsu", "Aisukurimu", "Jerato",
           "Kasutera", "PaundoKeki", "Chizu", "Kurakka", "EnajiBa", "GuranoraBa", "Zeri",
           "DoraiFurutsu", "Poppukon", "Gumi", "PotetoChippusu", "Sunakku", "Ame" >> >> >>

\* every food some category of the variant's category filter offers
AllCategoryFoods(v) ==
  LET cats == IF v = "Streamlitapp" THEN food_categories_Streamlitapp
              ELSE IF v = "streamlit_app" THEN food_categories_streamlit_app
              ELSE << >>
  IN  UNION { Range(cats[i][2]) : i \in 1..Len(cats) }

(***************************************************************************)
(* Bounds of the model.                                                    *)
(***************************************************************************)
\* words in one generated caption
MaxWords == 3

\* candidate captions of one ViT-GPT2 analysis (num_return_sequences is 8)
MaxCandidates == 2

\* names in one Gemini answer
MaxFoods == 2

\* rows of the CSV table in the catalog-load specification
MaxRows == 3

\* foods in one selection
MaxSelect == 2

\* calculate actions in one run of the session
MaxMeals == 2

\* most foods of one binary64 summation
MaxSummands == 3

\* most presses of the save button in one session
MaxSaves == 1

\* the reads of the nutrient table are counted up to this number
MaxLoads == 2

\* most documents the store holds when the session starts; a save adds
\* at most one more
\* for attempt in range(5)
MaxAttempts == 5

MaxRecords == 2

\* all lists of at most n elements of S
SeqsUpTo(S, n) == UNION { [1..k -> S] : k \in 0..n }

\* the lists without duplicates of at most n elements of S
Selections(S, n) == { s \in SeqsUpTo(S, n) : NoDuplicates(s) }

\* the orders in which list(set(...)) may return the elements of S
Orderings(S) == { s \in [1..Cardinality(S) -> S] : Range(s) = S }

RECURSIVE Join(_, _)
\* sep.join(parts)
Join(parts, sep) ==
  IF Len(parts) = 0 THEN ""
  ELSE IF Len(parts) = 1 THEN parts[1]
  ELSE parts[1] \o sep \o Join(Tail(parts), sep)

(***************************************************************************)
(* State.                                                                  *)
(***************************************************************************)
VARIABLES
  variant,                  \* which of the four scripts runs
  api_key,                  \* the Gemini key is configured (Gemini variants)
  csv,                      \* food_nutrition.csv
  phase,                    \* "boot": before the first script run,
                            \* "ready": catalog loaded, "crashed": the script
                            \* raises at module level on every run
  uncaught,                 \* the last script run ended in an uncaught exception
  nutrition_dict,           \* identifier -> nutrient vector
  available_foods,          \* list of the catalog's identifiers
  image,                    \* the uploaded image, given as what the captioning
                            \* model or vision API answers for it
  analyzed,                 \* the auto-analyze handler has run on this image
  scan,                     \* handler local: `detected` after the keyword loop
  detected,                 \* handler local: the matcher's result
  detected_foods,           \* st.session_state.detected_foods
  manual_mode,              \* st.session_state.manual_mode
  selected_foods,           \* the multiselect value of the last calculation
  meals,                    \* calculations so far (bounded by MaxMeals)
  total_nutrition_for_day,  \* st.session_state.total_nutrition_for_day
  last_added_nutrition,     \* st.session_state.last_added_nutrition
  last_selected_meal_type,  \* st.session_state.last_selected_meal_type
  show_total_chart,         \* st.session_state.show_total_chart
  data_added,               \* st.session_state.data_added
  auth_ready,               \* st.session_state.auth_ready: Firestore is connected
  store,                    \* the documents of users/<id>/nutrition_logs, in the
                            \* order collection.stream() returns them
  saves,                    \* saves so far (counted up to MaxSaves)
  history,                  \* st.session_state.history
  view,                     \* the report the last script run rendered
  save_button,              \* the save button the last script run drew: << >>, or
                            \* << the args bound to its on_click callback >>
  save_status,              \* what the last save callback reported
  meal_log,                 \* history variable: the meal vectors calculated since
                            \* the last reset
  catalog_loads,            \* reads of the nutrient table by this process
                            \* (counted up to MaxLoads)
  model_loads,              \* loads of the captioning model by this process
  call,                     \* analyze_image_with_gemini of streamlit_app.py: the
                            \* answers the API will give and the loop's position
  f_selection,              \* binary64 summation: the selection
  f_meal                    \* binary64 summation: << >>, or << the meal vector >>

vars ==
  << variant, api_key, csv, phase, uncaught, nutrition_dict, available_foods,
     image, analyzed, scan, detected, detected_foods, manual_mode,
     selected_foods, meals, total_nutrition_for_day, last_added_nutrition, last_selected_meal_type,
     show_total_chart, data_added, auth_ready, store, saves, history, view,
     save_button, save_status, meal_log, catalog_loads, model_loads, call,
     f_selection, f_meal >>

configVars == << variant, api_key, csv, auth_ready >>

catalogVars == << nutrition_dict, available_foods >>

detectionVars == << analyzed, scan, detected, detected_foods, manual_mode >>

nutritionVars ==
  << selected_foods, meals, total_nutrition_for_day, last_added_nutrition,
     last_selected_meal_type, data_added, meal_log >>

floatVars == << f_selection, f_meal >>

backendVars == << store, saves, history, save_status >>

(***************************************************************************)
(* What the captioning model or the vision API answers for an image.       *)
(***************************************************************************)
NoImage == [kind |-> "none"]

\* BLIP: one caption
Caption(t) == [kind |-> "caption", text |-> t]

\* ViT-GPT2: the decoded candidate captions
Captions(ts) == [kind |-> "captions", texts |-> ts]

\* Gemini REST: the parsed JSON object holds a list under 'foods'
Foods(lst) == [kind |-> "foods", foods |-> lst]

\* Gemini REST: a parsed JSON object without 'foods'
JsonWithoutFoods == [kind |-> "json_without_foods"]

\* Gemini REST: analyze_image_with_gemini returns None
ApiNone == [kind |-> "api_none"]

\* Gemini REST: the first candidate of the answer lacks content, parts or
\* text
MalformedCandidate == [kind |-> "malformed_candidate"]

\* Gemini SDK: response.text
Text(t) == [kind |-> "text", text |-> t]

\* the model or the SDK call raises
Failure == [kind |-> "error"]

(***************************************************************************)
(* Input sets.                                                             *)
(***************************************************************************)
BlipWords ==
  { "rice", "egg", "chicken", "meat", "eggplant" }

\* captions given in full
ExampleCaptions ==
  { "a bowl of rice with egg and chicken on top",
    "a bowl with egg and chicken",
    "a plate of fried rice",
    "A Pork Cutlet on Rice with Egg",
    "an empty plate" }

BlipCaptions ==
  { Join(ws, " ") : ws \in SeqsUpTo(BlipWords, MaxWords) } \cup ExampleCaptions

VitCaptions ==
  { "a bowl of rice", "grilled chicken meat", "Berries and Milk", "an empty plate" }

GeminiNames == { "Gohan", "Toriniku", "Piza" }

GeminiLists == SeqsUpTo(GeminiNames, MaxFoods)

GeminiTexts ==
  { Join(l, sep) : l \in GeminiLists, sep \in {",", ", "} } \cup { " Gohan ", " " }

MatchImages(v) ==
  CASE v = "Streamlitapp" -> { Caption(c) : c \in BlipCaptions } \cup { Failure }
    [] v = "stleamlit_app" ->
         { Captions(ts) : ts \in SeqsUpTo(VitCaptions, MaxCandidates) \ { << >> } }
         \cup { Failure }
    [] v = "streamlit_app" ->
         { Foods(l) : l \in GeminiLists }
         \cup { JsonWithoutFoods, ApiNone, MalformedCandidate }
    [] v = "stleamlit_apps" -> { Text(t) : t \in GeminiTexts } \cup { Failure }

SessionImages(v) ==
  CASE v = "Streamlitapp" -> { Caption("rice egg chicken"), Failure }
    [] v = "stleamlit_app" ->
         { Captions(<< "a bowl of rice", "an empty plate" >>), Failure }
    [] v = "streamlit_app" -> { Foods(<< "Gohan", "Piza" >>), ApiNone }
    [] v = "stleamlit_apps" -> { Text("Gohan, Toriniku"), Failure }

\* tables of the matcher and session specifications
TableFull ==
  << Row("Gohan", 1680, 25, 3, 371), Row("Tamago", 910, 74, 62, 2),
     Row("Toriniku", 1450, 230, 35, 0), Row("Oyakodon", 7310, 306, 202, 1019),
     Row("Katsudon", 8930, 297, 325, 1121), Row("Pasuta", 3780, 130, 15, 731) >>

TablePlain ==
  << Row("Gohan", 1560, 25, 3, 371), Row("Tamago", 910, 74, 62, 2),
     Row("Gohan", 1680, 25, 3, 371) >>

MatchFiles ==
  { File("ok", TableFull), File("ok", TablePlain), File("missing", << >>) }

SessionFiles == { File("ok", TableFull), File("missing", << >>) }

\* tables of the catalog-load specification
RowFoods == { "Gohan", "Toriniku" }

RowVectors == { Vec(1680, 25, 3, 371), Vec(1450, 230, 35, 0) }

CatalogRows == { [food |-> f, vec |-> v] : f \in RowFoods, v \in RowVectors }

CatalogFiles ==
  { File("ok", rows) : rows \in SeqsUpTo(CatalogRows, MaxRows) }
  \cup { File(st, << >>) : st \in {"missing", "unparseable", "no_food_column"} }

\* the table of the report specification: water, rice, a pork cutlet bowl,
\* a protein product and sugar
RenderTable ==
  << Row("Mizu", 0, 0, 0, 0), Row("Gohan", 1680, 25, 3, 371),
     Row("Katsudon", 8930, 297, 325, 1121), Row("Purotein", 40000, 10000, 0, 0),
     Row("Satou", 9800, 0, 0, 2500) >>

RenderFoods == { RenderTable[i].food : i \in DOMAIN RenderTable }

\* a picture in which nothing is detected
RenderImage(v) ==
  CASE v = "Streamlitapp" -> Caption("an empty plate")
    [] v = "stleamlit_app" -> Captions(<< "an empty plate" >>)
    [] v = "streamlit_app" -> Foods(<< >>)
    [] v = "stleamlit_apps" -> Text(" ")

\* the foods the modelled user picks from
UserFoods == { "Gohan", "Meronpan" }

\* the meal types the modelled user picks from
UserMealTypes == { "Choshoku", "Oyatsu" }

(***************************************************************************)
(* The Gemini SDK answer: text.split(","), strip(), filter by the catalog. *)
(***************************************************************************)
IsSpace(c) == c \in {" ", "\t", "\n"}

RECURSIVE LStrip(_)
LStrip(s) ==
  IF Len(s) > 0 /\ IsSpace(SubSeq(s, 1, 1)) THEN LStrip(SubSeq(s, 2, Len(s))) ELSE s

RECURSIVE RStrip(_)
RStrip(s) ==
  IF Len(s) > 0 /\ IsSpace(SubSeq(s, Len(s), Len(s)))
  THEN RStrip(SubSeq(s, 1, Len(s) - 1)) ELSE s

\* str.strip()
Strip(s) == LStrip(RStrip(s))

RECURSIVE Split(_, _)
\* str.split(sep) for a one-character separator
Split(s, sep) ==
  IF ~Contains(sep, s) THEN << s >>
  ELSE LET i == CHOOSE j \in 1..Len(s) :
                  /\ SubSeq(s, j, j) = sep
                  /\ \A k \in 1..(j - 1) : SubSeq(s, k, k) # sep
       IN  << SubSeq(s, 1, i - 1) >> \o Split(SubSeq(s, i + 1, Len(s)), sep)

RECURSIVE FilterIn(_, _)
\* [x for x in lst if x in keep]
FilterIn(lst, keep) ==
  IF Len(lst) = 0 THEN << >>
  ELSE (IF Head(lst) \in keep THEN << Head(lst) >> ELSE << >>)
       \o FilterIn(Tail(lst), keep)

\* [food.strip() for food in text.split(",") if food.strip() in available_foods]
SdkDetected(text, foods) ==
  LET parts == Split(text, ",")
  IN  FilterIn([i \in 1..Len(parts) |-> Strip(parts[i])], Range(foods))

\* matching_foods = [food for food in detected_foods if food in nutrition_dict]
matching_foods(foods, dict) == FilterIn(foods, DOMAIN dict)

\* a faulty variant: only the first candidate is read
FirstCaptionOnly(texts) == lower(texts[1]) \o " "

RECURSIVE CombinedCaption(_)
\* combined_caption: every decoded candidate, lower-cased, followed by a blank
CombinedCaption(texts) ==
  IF Len(texts) = 0 THEN ""
  ELSE lower(Head(texts)) \o " " \o CombinedCaption(Tail(texts))

(***************************************************************************)
(* Aggregation.                                                            *)
(***************************************************************************)
\* a faulty variant: the loop ends at the first identifier the catalog lacks
SumFoodsBreak(selected, dict) ==
  LET acc[i \in 0..Len(selected)] ==
        IF i = 0 THEN ZeroVec
        ELSE IF \A j \in 1..i : selected[j] \in DOMAIN dict
             THEN [k \in NutrientKeys |-> acc[i - 1][k] + dict[selected[i]][k]]
             ELSE acc[i - 1]
  IN  acc[Len(selected)]

\* the meal vector of the calculate handler: the loop
\* `for f in selected_foods: if f in nutrition_dict: meal[k] += ...`
sumFoods(selected, dict) ==
  LET acc[i \in 0..Len(selected)] ==
        IF i = 0 THEN ZeroVec
        ELSE IF selected[i] \in DOMAIN dict
             THEN [k \in NutrientKeys |-> acc[i - 1][k] + dict[selected[i]][k]]
             ELSE acc[i - 1]
  IN  acc[Len(selected)]

\* a faulty variant: the meal replaces the total
AccumulateReplace(total, meal) == meal

\* a faulty variant: the meal is taken off the total
AccumulateSubtract(total, meal) == [k \in NutrientKeys |-> total[k] - meal[k]]

\* total_nutrition_for_day[key] += meal[key]
accumulate(total, meal) == [k \in NutrientKeys |-> total[k] + meal[k]]

(***************************************************************************)
(* The report: the mode's current and target vectors, the chart values and *)
(* the advice.  Quantities are tenths, so the meal targets needs * ratio   *)
(* and the thresholds needs * 0.5 and needs * 0.8 are exact; a comparison  *)
(* with half a target is written 2 * current < target.  The chart values   *)
(* are the exact quotients, as reduced fractions of percent.               *)
(***************************************************************************)
\* daily_needs, in tenths
daily_needs == Vec(20000, 600, 500, 3000)

\* meal_ratios, in hundredths
meal_ratios ==
  [t \in MealTypes |->
     CASE t = "Choshoku" -> 25
       [] t = "Chushoku" -> 35
       [] t = "Yushoku" -> 30
       [] t = "Oyatsu" -> 10]

\* a faulty variant: every meal has the breakfast ratio
MealRatioBreakfast(t) == 25

\* meal_ratios.get(last_selected_meal_type, 0.25), in hundredths
MealRatio(t) == IF t \in DOMAIN meal_ratios THEN meal_ratios[t] ELSE 25

\* {k: v * ratio for k, v in daily_needs.items()}
meal_needs(t) == [k \in NutrientKeys |-> (daily_needs[k] * MealRatio(t)) \div 100]

\* the upper end of the chart values: min(..., 120), in streamlit_app.py
\* min(..., 100)
Ceiling(v) == IF v = "streamlit_app" THEN 100 ELSE 120

RECURSIVE Gcd(_, _)
Gcd(a, b) == IF b = 0 THEN a ELSE Gcd(b, a % b)

\* the fraction num/den in lowest terms
Frac(num, den) ==
  LET g == Gcd(num, den) IN [num |-> num \div g, den |-> den \div g]

\* a faulty variant: the quotient is not clamped
PercentUnclamped(v, c, t) == IF t > 0 THEN Frac(100 * c, t) ELSE Frac(0, 1)

\* min((current / target) * 100, ceiling) if target > 0 else 0; streamlit_app.py
\* divides without the test (its targets are positive)
Percent(v, c, t) ==
  IF t > 0
  THEN IF 100 * c > Ceiling(v) * t THEN Frac(Ceiling(v), 1) ELSE Frac(100 * c, t)
  ELSE Frac(0, 1)

\* a faulty variant: the protein test comes before the calorie tests
AdviceChainProteinFirst(total) ==
  IF 2 * total.protein < daily_needs.protein THEN << "protein_low" >>
  ELSE IF total.calories = 0 THEN << "no_data" >>
  ELSE IF total.calories > daily_needs.calories THEN << "over_target" >>
  ELSE IF 10 * total.carbohydrates > 8 * daily_needs.carbohydrates
       THEN << "carbohydrates_on_track" >>
  ELSE << "balanced" >>

\* Streamlitapp.py: the if/elif chain on the daily total
AdviceChain(total) ==
  IF total.calories = 0 THEN << "no_data" >>
  ELSE IF total.calories > daily_needs.calories THEN << "over_target" >>
  ELSE IF 2 * total.protein < daily_needs.protein THEN << "protein_low" >>
  ELSE IF 10 * total.carbohydrates > 8 * daily_needs.carbohydrates
       THEN << "carbohydrates_on_track" >>
  ELSE << "balanced" >>

\* a faulty variant: the protein test comes before the calorie test
AdviceChainVitProteinFirst(total) ==
  IF 2 * total.protein < daily_needs.protein THEN << "protein_low" >>
  ELSE IF total.calories > daily_needs.calories THEN << "over_target" >>
  ELSE << "balanced" >>

\* stleamlit_app.py: the three-branch chain on the daily total
AdviceChainVit(total) ==
  IF total.calories > daily_needs.calories THEN << "over_target" >>
  ELSE IF 2 * total.protein < daily_needs.protein THEN << "protein_low" >>
  ELSE << "balanced" >>

\* the deficiency messages of the Gemini variants, in the order of the keys
LowKeys(current, needs) ==
  LET keys == << "calories", "protein", "fat", "carbohydrates" >>
      low(k) == IF 2 * current[k] < needs[k] THEN << k \o "_low" >> ELSE << >>
  IN  low(keys[1]) \o low(keys[2]) \o low(keys[3]) \o low(keys[4])

\* streamlit_app.py: the messages of the mode shown, else success or "no data"
AdviceRest(current, needs) ==
  LET advice_messages == LowKeys(current, needs)
  IN  IF advice_messages # << >> THEN advice_messages
      ELSE IF current.calories > 0 THEN << "balanced" >> ELSE << "no_data" >>

\* stleamlit_apps.py: the messages of the mode shown, else success, else nothing
AdviceSdk(current, needs) ==
  LET advices == LowKeys(current, needs)
  IN  IF advices # << >> THEN advices
      ELSE IF current.calories > 0 THEN << "balanced" >> ELSE << >>

\* the advice of the variant
Advice(v, total, current, needs) ==
  CASE v = "Streamlitapp" -> AdviceChain(total)
    [] v = "stleamlit_app" -> AdviceChainVit(total)
    [] v = "streamlit_app" -> AdviceRest(current, needs)
    [] v = "stleamlit_apps" -> AdviceSdk(current, needs)

\* no report on the page
NoView == [shown |-> FALSE]

\* the report block is reached: the run did not stop before it, data_added
\* is set, and the block that encloses the report in the variant is entered
ReportShown(v, ph, unc, img, mm, da) ==
  /\ ph = "ready" /\ ~unc /\ da
  /\ v = "streamlit_app" => img # NoImage
  /\ v = "stleamlit_apps" => mm

\* a faulty variant: the chart of the last meal is drawn in both modes
ReportMealOnly(v, total, last, mt, daily) ==
  LET current == last
      needs == meal_needs(mt)
  IN  [shown |-> TRUE,
       mode |-> IF daily THEN "daily" ELSE "meal",
       current |-> current,
       target |-> needs,
       values |-> [k \in NutrientKeys |-> Percent(v, current[k], needs[k])],
       advice |-> Advice(v, total, current, needs)]

\* the report: stleamlit_app.py draws the daily chart only, the others the
\* chart show_total_chart selects
Report(v, total, last, mt, daily) ==
  LET current == IF daily THEN total ELSE last
      needs == IF daily THEN daily_needs ELSE meal_needs(mt)
  IN  [shown |-> TRUE,
       mode |-> IF daily THEN "daily" ELSE "meal",
       current |-> current,
       target |-> needs,
       values |-> [k \in NutrientKeys |-> Percent(v, current[k], needs[k])],
       advice |-> Advice(v, total, current, needs)]

\* what the script run that ends in the primed state draws
Render ==
  view' = IF ReportShown(variant, phase', uncaught', image', manual_mode', data_added')
          THEN Report(variant, total_nutrition_for_day', last_added_nutrition',
                      last_selected_meal_type',
                      variant = "stleamlit_app" \/ show_total_chart')
          ELSE NoView

(***************************************************************************)
(* The saved records: users/<id>/nutrition_logs and the history read from  *)
(* it.                                                                      *)
(***************************************************************************)
\* a document: {**nutrition_data, "meal_type": ..., "timestamp": ...}
Record(mt, vec, ts) == [meal_type |-> mt, vec |-> vec, timestamp |-> ts]

\* firestore.SERVER_TIMESTAMP: later than every timestamp in the store
ServerTimestamp(docs) ==
  LET stamps == { docs[i].timestamp : i \in DOMAIN docs } \cup {0}
  IN  1 + CHOOSE m \in stamps : \A x \in stamps : x <= m

\* the stream with a new document at position i
InsertAt(docs, i, doc) ==
  SubSeq(docs, 1, i - 1) \o << doc >> \o SubSeq(docs, i, Len(docs))

\* Streamlitapp.py, stleamlit_app.py: history_data[meal_type] = data for every
\* document of the stream
LoadLastInStream(docs) ==
  LET history_data[i \in 0..Len(docs)] ==
        IF i = 0 THEN << >>
        ELSE LET data == docs[i]
                 before == history_data[i - 1]
             IN  [t \in DOMAIN before \cup {data.meal_type} |->
                    IF t = data.meal_type THEN data ELSE before[t]]
  IN  history_data[Len(docs)]

\* streamlit_app.py, stleamlit_apps.py: a document replaces the entry of its
\* meal type when its timestamp is greater (an entry is written as the
\* document whose fields it holds)
LoadNewest(docs) ==
  LET history_data[i \in 0..Len(docs)] ==
        IF i = 0 THEN << >>
        ELSE LET data == docs[i]
                 before == history_data[i - 1]
             IN  IF \/ data.meal_type \notin DOMAIN before
                    \/ data.timestamp > before[data.meal_type].timestamp
                 THEN [t \in DOMAIN before \cup {data.meal_type} |->
                         IF t = data.meal_type THEN data ELSE before[t]]
                 ELSE before
  IN  history_data[Len(docs)]

\* load_nutrition_data: {} unless Firestore is connected
load_nutrition_data(v, ready, docs) ==
  IF ~ready THEN << >>
  ELSE IF v \in {"Streamlitapp", "stleamlit_app"} THEN LoadLastInStream(docs)
  ELSE LoadNewest(docs)

(***************************************************************************)
(* Initial states: the process before the first script run, the session    *)
(* state at the defaults the script gives it.                              *)
(***************************************************************************)
GeminiVariants == {"streamlit_app", "stleamlit_apps"}

\* the variants that load a captioning model (under st.cache_resource)
ModelVariants == {"Streamlitapp", "stleamlit_app"}

\* analyze_image_with_gemini is not running
IdleCall ==
  [state |-> "idle", outcomes |-> << >>, attempt |-> 0, posts |-> 0,
   sleeps |-> << >>, result |-> "none"]

\* a faulty variant: every session counts as connected
AlwaysConnected(ready) == TRUE

\* `if not st.session_state.auth_ready` (or db is None): the session has a
\* Firestore client
Connected(ready) ==
  ready

\* st.button(..., on_click=save_nutrition_data, args=(last_selected_meal_type,
\* last_added_nutrition)) under its `if`: the args are bound when the button
\* is drawn.  The Gemini variants test auth_ready, the meal type and
\* data_added, the other two auth_ready inside the report.
SaveButton(v, ready, da, mt, vec) ==
  IF v \in GeminiVariants
  THEN IF Connected(ready) /\ da /\ mt # ""
       THEN << [meal_type |-> mt, vec |-> vec] >> ELSE << >>
  ELSE IF Connected(ready)
       THEN << [meal_type |-> mt, vec |-> vec] >> ELSE << >>

\* the save button of the script run that ends in the primed state.
\* Streamlitapp.py and stleamlit_app.py draw it at the end of the report,
\* after every handler.  The Gemini variants draw it at the top of the page,
\* before the handlers: it shows the session as the handler leaves it only
\* if the handler ends in st.rerun() (fresh), else as the handler found it.
DrawSave(fresh) ==
  save_button' =
    IF variant \in GeminiVariants
    THEN IF phase' # "ready" THEN << >>
         ELSE IF fresh
         THEN SaveButton(variant, auth_ready, data_added', last_selected_meal_type',
                         last_added_nutrition')
         ELSE SaveButton(variant, auth_ready, data_added, last_selected_meal_type,
                         last_added_nutrition)
    ELSE IF view'.shown
         THEN SaveButton(variant, auth_ready, data_added', last_selected_meal_type',
                         last_added_nutrition')
         ELSE << >>

\* a function under st.cache_data or st.cache_resource is called with n
\* executions of its body behind it: the body runs if the cache is empty
CachedLoad(n) ==
  IF n = 0 THEN 1 ELSE n

\* a module-level statement runs (counted up to MaxLoads)
UncachedLoad(n) ==
  IF n < MaxLoads THEN n + 1 ELSE n

\* the reads of the nutrient table after one more script run:
\* pd.read_csv at module level in streamlit_app.py, a function under
\* st.cache_data in the other three
CatalogLoads(v, n) ==
  IF v = "streamlit_app" THEN UncachedLoad(n) ELSE CachedLoad(n)

\* the loads of the captioning model after one more script run:
\* load_blip_model / load_food_ai_model under st.cache_resource; the Gemini
\* variants load no model
ModelLoads(v, n) ==
  IF v \in ModelVariants THEN CachedLoad(n) ELSE n

\* the loads of one script run
Reload ==
  /\ catalog_loads' = CatalogLoads(variant, catalog_loads)
  /\ model_loads' = ModelLoads(variant, model_loads)

\* what every script run after the first does besides its handler
ScriptRun(fresh) == Render /\ DrawSave(fresh) /\ Reload

InitSession ==
  /\ variant \in Variants
  /\ api_key \in (IF variant \in GeminiVariants THEN BOOLEAN ELSE {TRUE})
  /\ phase = "boot"
  /\ uncaught = FALSE
  /\ nutrition_dict = << >>
  /\ available_foods = << >>
  /\ analyzed = FALSE
  /\ scan = << >>
  /\ detected = << >>
  /\ detected_foods = << >>
  /\ manual_mode = FALSE
  /\ selected_foods = << >>
  /\ meals = 0
  /\ total_nutrition_for_day = ZeroVec
  /\ last_added_nutrition = ZeroVec
  /\ last_selected_meal_type =
       (IF variant \in GeminiVariants THEN "" ELSE "Choshoku")
  /\ show_total_chart = TRUE
  /\ data_added = FALSE
  /\ saves = 0
  /\ history = << >>
  /\ view = NoView
  /\ save_button = << >>
  /\ save_status = "none"
  /\ meal_log = << >>
  /\ catalog_loads = 0
  /\ model_loads = 0
  /\ call = IdleCall
  /\ f_selection = << >>
  /\ f_meal = << >>

Init ==
  /\ InitSession
  /\ auth_ready = TRUE
  /\ store = << >>
  /\ csv \in SessionFiles
  /\ image = NoImage

InitMatch ==
  /\ InitSession
  /\ auth_ready = TRUE
  /\ store = << >>
  /\ csv \in MatchFiles
  /\ image \in MatchImages(variant)

InitCatalog ==
  /\ InitSession
  /\ auth_ready = TRUE
  /\ store = << >>
  /\ csv \in CatalogFiles
  /\ image = NoImage

\* the session after one or two calculations over the table of the report
\* specification, before the script run that draws the report
InitRender ==
  /\ variant \in Variants
  /\ api_key = TRUE
  /\ auth_ready = TRUE
  /\ csv = File("ok", RenderTable)
  /\ phase = "ready"
  /\ uncaught = FALSE
  /\ nutrition_dict = LoadCatalog(variant, csv).dict
  /\ available_foods = LoadCatalog(variant, csv).foods
  /\ image = RenderImage(variant)
  /\ analyzed = (variant \in {"stleamlit_app", "stleamlit_apps"})
  /\ scan = << >>
  /\ detected = << >>
  /\ detected_foods = << >>
  /\ manual_mode = TRUE
  /\ \E earlier \in Selections(RenderFoods, MaxSelect),
        sel \in Selections(RenderFoods, MaxSelect) \ { << >> } :
       /\ selected_foods = sel
       /\ meals = (IF earlier = << >> THEN 1 ELSE 2)
       /\ last_added_nutrition = sumFoods(sel, nutrition_dict)
       /\ total_nutrition_for_day =
            accumulate(sumFoods(earlier, nutrition_dict), last_added_nutrition)
       /\ meal_log = (IF earlier = << >> THEN << >>
                      ELSE << sumFoods(earlier, nutrition_dict) >>)
                     \o << last_added_nutrition >>
  /\ last_selected_meal_type \in MealTypes
  /\ show_total_chart \in (IF variant = "stleamlit_app" THEN {TRUE} ELSE BOOLEAN)
  /\ data_added = TRUE
  /\ store = << >>
  /\ saves = 0
  /\ history = << >>
  /\ view = NoView
  /\ save_button = << >>
  /\ save_status = "none"
  /\ catalog_loads = 1
  /\ model_loads = (IF variant \in ModelVariants THEN 1 ELSE 0)
  /\ call = IdleCall
  /\ f_selection = << >>
  /\ f_meal = << >>

\* the documents in the store when the session starts: any meal types, the
\* timestamps distinct and in any stream order
Stores ==
  UNION { { [i \in 1..n |-> Record(types[i], Vec(1680, 25, 3, 371), stamps[i])] :
              types \in [1..n -> UserMealTypes], stamps \in Orderings(1..n) } :
          n \in 0..MaxRecords }

InitHistory ==
  /\ InitSession
  /\ auth_ready = TRUE
  /\ store \in Stores
  /\ csv = File("missing", << >>)
  /\ image = NoImage

\* what one requests.post of analyze_image_with_gemini comes to: a
\* requests.exceptions.RequestException (connection, HTTP status), an answer
\* without candidates, a candidate whose text is not JSON, a candidate whose
\* text parses, a candidate without content, parts or text
Outcomes ==
  {"request_exception", "no_candidates", "text_not_json", "parsed", "malformed"}

\* a faulty variant: the wait grows by one second
BackoffLinear(attempt) ==
  attempt + 1

\* time.sleep(2 ** attempt)
Backoff(attempt) ==
  2 ^ attempt

\* a faulty variant: an answer without candidates is retried as well
AttemptRetryEmpty(c, o) ==
  LET posted == [c EXCEPT !.posts = c.posts + 1,
                          !.outcomes = Append(c.outcomes, o)]
  IN  IF o \in {"request_exception", "no_candidates"} /\ c.attempt < MaxAttempts - 1
      THEN [posted EXCEPT !.attempt = c.attempt + 1,
                          !.sleeps = Append(c.sleeps, Backoff(c.attempt))]
      ELSE [posted EXCEPT !.state = "done",
                          !.result = IF o = "parsed" THEN "returned_result"
                                     ELSE IF o = "malformed" THEN "raised"
                                     ELSE "returned_none"]

\* one iteration of `for attempt in range(5)` in the call frame c, the
\* request coming to o: the return, the raise, or the except clause
Attempt(c, o) ==
  LET posted == [c EXCEPT !.posts = c.posts + 1,
                          !.outcomes = Append(c.outcomes, o)]
  IN  CASE o = "request_exception" ->
             IF c.attempt < MaxAttempts - 1
             THEN [posted EXCEPT !.attempt = c.attempt + 1,
                                 !.sleeps = Append(c.sleeps, Backoff(c.attempt))]
             ELSE [posted EXCEPT !.state = "done", !.result = "returned_none"]
        [] o = "no_candidates" ->
             [posted EXCEPT !.state = "done", !.result = "returned_none"]
        [] o = "text_not_json" ->
             [posted EXCEPT !.state = "done", !.result = "returned_none"]
        [] o = "parsed" ->
             [posted EXCEPT !.state = "done", !.result = "returned_result"]
        [] o = "malformed" ->
             [posted EXCEPT !.state = "done", !.result = "raised"]

\* streamlit_app.py with an API key and a picture for which the service,
\* when it answers, names these foods or sends no 'foods'
InitCall ==
  /\ variant = "streamlit_app"
  /\ api_key = TRUE
  /\ phase = "boot"
  /\ uncaught = FALSE
  /\ nutrition_dict = << >>
  /\ available_foods = << >>
  /\ analyzed = FALSE
  /\ scan = << >>
  /\ detected = << >>
  /\ detected_foods = << >>
  /\ manual_mode = FALSE
  /\ selected_foods = << >>
  /\ meals = 0
  /\ total_nutrition_for_day = ZeroVec
  /\ last_added_nutrition = ZeroVec
  /\ last_selected_meal_type = ""
  /\ show_total_chart = TRUE
  /\ data_added = FALSE
  /\ saves = 0
  /\ history = << >>
  /\ view = NoView
  /\ save_button = << >>
  /\ save_status = "none"
  /\ meal_log = << >>
  /\ catalog_loads = 0
  /\ model_loads = 0
  /\ f_selection = << >>
  /\ f_meal = << >>
  /\ auth_ready = TRUE
  /\ store = << >>
  /\ csv \in SessionFiles
  /\ image \in { Foods(<< "Gohan", "Piza" >>), Foods(<< "Gohan" >>), Foods(<< >>),
                JsonWithoutFoods }
  /\ call = IdleCall

InitProcess ==
  /\ InitSession
  /\ auth_ready = FALSE
  /\ store = << >>
  /\ csv \in SessionFiles
  /\ image = NoImage

InitSave ==
  /\ InitSession
  /\ auth_ready \in BOOLEAN
  /\ store = << >>
  /\ csv = File("missing", << >>)
  /\ image = NoImage

(***************************************************************************)
(* Actions: one per script run that changes state.                         *)
(***************************************************************************)
\* the first script run: the catalog load
Startup ==
  /\ phase = "boot"
  /\ LET r == LoadCatalog(variant, csv)
     IN  /\ phase' = (IF r.raised THEN "crashed" ELSE "ready")
         /\ uncaught' = r.raised
         /\ nutrition_dict' = r.dict
         /\ available_foods' = r.foods
  /\ history' = (IF variant = "streamlit_app" /\ auth_ready /\ history = << >>
                 THEN load_nutrition_data(variant, auth_ready, store)
                 ELSE history)
  /\ UNCHANGED << configVars, image, detectionVars, nutritionVars,
                  show_total_chart, store, saves, save_status, call, floatVars >>
  /\ ScriptRun(TRUE)

\* the user takes or uploads a picture
UploadImage(out) ==
  /\ phase = "ready"
  /\ image' = out
  /\ analyzed' = FALSE
  /\ uncaught' = FALSE
  /\ UNCHANGED << configVars, phase, catalogVars, scan, detected, detected_foods,
                  manual_mode, nutritionVars, show_total_chart, backendVars, call, floatVars >>
  /\ ScriptRun(TRUE)

\* Streamlitapp.py: the auto-analyze button
AnalyzeBlip ==
  /\ variant = "Streamlitapp" /\ phase = "ready" /\ image # NoImage
  /\ analyzed' = TRUE
  /\ IF image.kind = "caption"
     THEN LET caption == lower(image.text)
              det == DetectedBlip(caption, available_foods)
          IN  /\ scan' = KeywordScan(translate_hints, caption, available_foods)
              /\ \E ord \in Orderings(Range(det)) :
                   /\ detected' = ord
                   /\ detected_foods' = (IF ord # << >> THEN ord ELSE detected_foods)
              /\ manual_mode' = TRUE
     ELSE /\ scan' = << >>
          /\ detected' = << >>
          /\ manual_mode' = FALSE
          /\ UNCHANGED detected_foods
  /\ uncaught' = FALSE
  /\ UNCHANGED << configVars, phase, catalogVars, image, nutritionVars,
                  show_total_chart, backendVars, call, floatVars >>
  /\ ScriptRun(TRUE)

\* stleamlit_app.py: the auto-analyze button (no exception guard)
AnalyzeVit ==
  /\ variant = "stleamlit_app" /\ phase = "ready" /\ image # NoImage
  /\ analyzed' = TRUE
  /\ IF image.kind = "captions"
     THEN LET combined_caption == CombinedCaption(image.texts)
              det == DetectedVit(combined_caption, available_foods)
          IN  /\ scan' = det
              /\ \E ord \in Orderings(Range(det)) :
                   /\ detected' = ord
                   /\ detected_foods' = ord
              /\ manual_mode' = TRUE
              /\ uncaught' = FALSE
     ELSE /\ scan' = << >>
          /\ detected' = << >>
          /\ manual_mode' = FALSE
          /\ uncaught' = TRUE
          /\ UNCHANGED detected_foods
  /\ UNCHANGED << configVars, phase, catalogVars, image, nutritionVars,
                  show_total_chart, backendVars, call, floatVars >>
  /\ ScriptRun(TRUE)

\* streamlit_app.py: the auto-analyze button.  The handler calls
\* analyze_image_with_gemini outside any try: the KeyError of a malformed
\* candidate leaves it after manual_mode = False and detected_foods = [].
AnalyzeRest ==
  /\ variant = "streamlit_app" /\ phase = "ready" /\ image # NoImage
  /\ analyzed' = TRUE
  /\ IF ~api_key
     THEN /\ manual_mode' = TRUE
          /\ uncaught' = FALSE
          /\ UNCHANGED << scan, detected, detected_foods >>
     ELSE /\ scan' = << >>
          /\ detected' = (IF image.kind = "foods"
                          THEN matching_foods(image.foods, nutrition_dict)
                          ELSE << >>)
          /\ detected_foods' = detected'
          /\ manual_mode' = (image.kind # "malformed_candidate")
          /\ uncaught' = (image.kind = "malformed_candidate")
  /\ UNCHANGED << configVars, phase, catalogVars, image, nutritionVars,
                  show_total_chart, backendVars, call, floatVars >>
  /\ ScriptRun(TRUE)

\* stleamlit_apps.py: the auto-analyze button
AnalyzeSdk ==
  /\ variant = "stleamlit_apps" /\ phase = "ready" /\ image # NoImage
  /\ analyzed' = TRUE
  /\ scan' = << >>
  /\ detected' = (IF api_key /\ image.kind = "text" /\ image.text # ""
                  THEN SdkDetected(image.text, available_foods)
                  ELSE << >>)
  /\ detected_foods' = detected'
  /\ manual_mode' = TRUE
  /\ data_added' = FALSE
  /\ uncaught' = FALSE
  /\ UNCHANGED << configVars, phase, catalogVars, image, selected_foods, meals,
                  total_nutrition_for_day, last_added_nutrition, meal_log,
                  last_selected_meal_type, show_total_chart, backendVars,
                  call, floatVars >>
  /\ ScriptRun(FALSE)

AutoAnalyze == AnalyzeBlip \/ AnalyzeVit \/ AnalyzeRest \/ AnalyzeSdk

\* the manual-entry button (Streamlitapp.py, streamlit_app.py)
ManualInput ==
  /\ variant \in {"Streamlitapp", "streamlit_app"}
  /\ phase = "ready" /\ image # NoImage
  /\ manual_mode' = TRUE
  /\ detected_foods' = << >>
  /\ uncaught' = FALSE
  /\ UNCHANGED << configVars, phase, catalogVars, image, analyzed, scan, detected,
                  nutritionVars, show_total_chart, backendVars, call, floatVars >>
  /\ ScriptRun(TRUE)

\* what the food multiselect offers: the catalog, or, in the category filter
\* of the manual mode, also every food of the chosen categories
Options ==
  IF variant \in {"Streamlitapp", "streamlit_app"} /\ detected_foods = << >>
  THEN Range(available_foods) \cup AllCategoryFoods(variant)
  ELSE Range(available_foods)

\* the calculate button with the multiselect at sel and the meal type at mt
Calculate(sel, mt) ==
  /\ phase = "ready" /\ image # NoImage /\ manual_mode
  /\ \/ /\ sel = << >>
        /\ UNCHANGED nutritionVars
     \/ /\ sel # << >>
        /\ meals < MaxMeals
        /\ LET meal == sumFoods(sel, nutrition_dict)
           IN  /\ total_nutrition_for_day' = accumulate(total_nutrition_for_day, meal)
               /\ last_added_nutrition' = meal
        /\ last_selected_meal_type' = mt
        /\ data_added' = TRUE
        /\ selected_foods' = sel
        /\ meals' = meals + 1
        /\ meal_log' = Append(meal_log, last_added_nutrition')
  /\ uncaught' = FALSE
  /\ UNCHANGED << configVars, phase, catalogVars, image, detectionVars,
                  show_total_chart, backendVars, call, floatVars >>
  /\ ScriptRun(variant # "streamlit_app")

\* the reset button: Streamlitapp.py and stleamlit_app.py clear the total,
\* streamlit_app.py also the last meal and the detection; stleamlit_apps.py
\* has none
Reset ==
  /\ phase = "ready" /\ data_added
  /\ \/ /\ variant \in {"Streamlitapp", "stleamlit_app"}
        /\ UNCHANGED << last_added_nutrition, detectionVars >>
     \/ /\ variant = "streamlit_app" /\ image # NoImage
        /\ last_added_nutrition' = ZeroVec
        /\ detected_foods' = << >>
        /\ manual_mode' = FALSE
        /\ UNCHANGED << analyzed, scan, detected >>
  /\ total_nutrition_for_day' = ZeroVec
  /\ data_added' = FALSE
  /\ meal_log' = << >>
  /\ uncaught' = FALSE
  /\ UNCHANGED << configVars, phase, catalogVars, image, selected_foods, meals,
                  last_selected_meal_type, show_total_chart, backendVars, call, floatVars >>
  /\ ScriptRun(TRUE)

\* the chart toggle (stleamlit_app.py has none)
ToggleChart ==
  /\ phase = "ready" /\ data_added
  /\ \/ variant = "Streamlitapp"
     \/ variant = "streamlit_app" /\ image # NoImage
     \/ variant = "stleamlit_apps" /\ manual_mode
  /\ show_total_chart' = ~show_total_chart
  /\ uncaught' = FALSE
  /\ UNCHANGED << configVars, phase, catalogVars, image, detectionVars,
                  nutritionVars, backendVars, call, floatVars >>
  /\ ScriptRun(TRUE)

\* a faulty variant: the document is stored although the write raised
SaveWritesAnyway(ready, docs, mt, vec, ok, i) ==
  [docs |-> InsertAt(docs, i, Record(mt, vec, ServerTimestamp(docs))),
   status |-> IF ok THEN "saved" ELSE "failed"]

\* save_nutrition_data(meal_type, nutrition_data): returns at once without
\* Firestore; else doc_ref.set(...) stores one document, which takes place i
\* of the stream (st.success), or raises (st.error)
save_nutrition_data(ready, docs, mt, vec, ok, i) ==
  IF ~Connected(ready)
  THEN [docs |-> docs, status |-> "not_connected"]
  ELSE IF ok
  THEN [docs |-> InsertAt(docs, i, Record(mt, vec, ServerTimestamp(docs))),
        status |-> "saved"]
  ELSE [docs |-> docs, status |-> "failed"]

\* a press of the save button on the page: the callback
\* save_nutrition_data with the args the button was drawn with, which
\* reloads the history after a write, then the script run
Save ==
  /\ phase = "ready" /\ save_button # << >>
  /\ saves < MaxSaves /\ Len(store) <= MaxRecords
  /\ \E ok \in BOOLEAN, i \in 1..(Len(store) + 1) :
       LET done == save_nutrition_data(auth_ready, store, save_button[1].meal_type,
                                       save_button[1].vec, ok, i)
       IN  /\ store' = done.docs
           /\ save_status' = done.status
           /\ history' = IF done.status = "saved"
                         THEN load_nutrition_data(variant, auth_ready, store')
                         ELSE history
  /\ saves' = saves + 1
  /\ uncaught' = FALSE
  /\ UNCHANGED << configVars, phase, catalogVars, image, detectionVars,
                  nutritionVars, show_total_chart, call, floatVars >>
  /\ ScriptRun(TRUE)

\* streamlit_app.py: the auto-analyze button is pressed; the handler resets
\* the detection and enters analyze_image_with_gemini
CallBegin ==
  /\ variant = "streamlit_app" /\ phase = "ready" /\ api_key
  /\ image # NoImage /\ call.state = "idle"
  /\ call' = [call EXCEPT !.state = "running"]
  /\ manual_mode' = FALSE
  /\ detected_foods' = << >>
  /\ uncaught' = FALSE
  /\ UNCHANGED << configVars, phase, catalogVars, image, analyzed, scan, detected,
                  nutritionVars, show_total_chart, backendVars, floatVars,
                  view, save_button, catalog_loads, model_loads >>

\* the next iteration of the loop; the one that leaves the loop also runs
\* the rest of the handler and the rerun
CallAttempt ==
  /\ call.state = "running"
  /\ \E o \in Outcomes : call' = Attempt(call, o)
  /\ IF call'.state = "running"
     THEN UNCHANGED << configVars, phase, uncaught, catalogVars, image,
                       detectionVars, nutritionVars, show_total_chart,
                       backendVars, floatVars, view, save_button,
                       catalog_loads, model_loads >>
     ELSE /\ analyzed' = TRUE
          /\ scan' = << >>
          /\ detected' = (IF call'.result = "returned_result" /\ image.kind = "foods"
                          THEN matching_foods(image.foods, nutrition_dict)
                          ELSE << >>)
          /\ detected_foods' = detected'
          /\ manual_mode' = (call'.result # "raised")
          /\ uncaught' = (call'.result = "raised")
          /\ UNCHANGED << configVars, phase, catalogVars, image, nutritionVars,
                          show_total_chart, backendVars, floatVars >>
          /\ ScriptRun(TRUE)

\* a new browser session of the same server process: st.session_state
\* starts empty, the caches and the store stay
NewSession ==
  /\ phase = "ready"
  /\ phase' = "boot"
  /\ uncaught' = FALSE
  /\ nutrition_dict' = << >>
  /\ available_foods' = << >>
  /\ image' = NoImage
  /\ analyzed' = FALSE
  /\ scan' = << >>
  /\ detected' = << >>
  /\ detected_foods' = << >>
  /\ manual_mode' = FALSE
  /\ selected_foods' = << >>
  /\ meals' = 0
  /\ total_nutrition_for_day' = ZeroVec
  /\ last_added_nutrition' = ZeroVec
  /\ last_selected_meal_type' =
       (IF variant \in GeminiVariants THEN "" ELSE "Choshoku")
  /\ show_total_chart' = TRUE
  /\ data_added' = FALSE
  /\ meal_log' = << >>
  /\ saves' = 0
  /\ history' = << >>
  /\ save_status' = "none"
  /\ view' = NoView
  /\ save_button' = << >>
  /\ UNCHANGED << configVars, store, catalog_loads, model_loads, call,
                  floatVars >>

\* a script run that changes no session value (any other widget)
Rerun ==
  /\ phase = "ready"
  /\ uncaught' = FALSE
  /\ UNCHANGED << configVars, phase, catalogVars, image, detectionVars,
                  nutritionVars, show_total_chart, backendVars, call, floatVars >>
  /\ ScriptRun(TRUE)

(***************************************************************************)
(* Specifications.                                                         *)
(***************************************************************************)
Next ==
  \/ Startup
  \/ \E out \in SessionImages(variant) : UploadImage(out)
  \/ AutoAnalyze
  \/ ManualInput
  \/ \E sel \in Selections(Options \cap UserFoods, MaxSelect), mt \in UserMealTypes :
       Calculate(sel, mt)
  \/ Reset
  \/ ToggleChart

\* the session
Spec == Init /\ [][Next]_vars

NextMatch == Startup \/ AutoAnalyze \/ ManualInput

\* one analysis of every answer of the captioning model or vision API
SpecMatch == InitMatch /\ [][NextMatch]_vars

NextRender == Rerun \/ ToggleChart \/ Reset

\* the report of every session state of the report table
SpecRender == InitRender /\ [][NextRender]_vars

NextHistory ==
  \/ Startup
  \/ UploadImage(RenderImage(variant))
  \/ AutoAnalyze
  \/ ManualInput
  \/ \E mt \in UserMealTypes : Calculate(<< "Gohan" >>, mt)
  \/ Save

\* the history of every store: one food is calculated and saved
SpecHistory == InitHistory /\ [][NextHistory]_vars

NextSave ==
  \/ Startup
  \/ UploadImage(RenderImage(variant))
  \/ AutoAnalyze
  \/ ManualInput
  \/ \E sel \in Selections(Options \cap UserFoods, MaxSelect), mt \in UserMealTypes :
       Calculate(sel, mt)
  \/ Reset
  \/ ToggleChart
  \/ Save
  \/ Rerun

\* the session with every button, the save button included, connected to
\* Firestore or not, from an empty store and the built-in catalog
SpecSave == InitSave /\ [][NextSave]_vars

NextCall == Startup \/ CallBegin \/ CallAttempt

\* one call of analyze_image_with_gemini, each request coming to any
\* outcome
SpecCall == InitCall /\ [][NextCall]_vars

\* the loop is straight-line code: an iteration that can run does run
\* (requests.post is taken to return or raise)
SpecCallFair == SpecCall /\ WF_vars(Startup \/ CallBegin \/ CallAttempt)

NextProcess ==
  \/ Startup
  \/ UploadImage(RenderImage(variant))
  \/ AutoAnalyze
  \/ ManualInput
  \/ \E mt \in UserMealTypes : Calculate(<< "Gohan" >>, mt)
  \/ Rerun
  \/ NewSession

\* the server process: sessions one after another over one set of caches
SpecProcess == InitProcess /\ [][NextProcess]_vars

NextCatalog == Startup

\* the catalog load of every table
SpecCatalog == InitCatalog /\ [][NextCatalog]_vars

(***************************************************************************)
(* Properties of the matcher (SpecMatch).                                  *)
(***************************************************************************)
\* the analysis of a caption has run (Streamlitapp.py, stleamlit_app.py)
CaptionAnalyzed == analyzed /\ image.kind \in {"caption", "captions"}

\* the text the keyword loop reads
ScannedText ==
  IF image.kind = "caption" THEN lower(image.text) ELSE CombinedCaption(image.texts)

\* the keyword table the variant's loop reads
ScannedHints == IF variant = "Streamlitapp" THEN translate_hints ELSE keyword_map

\* C1: every identifier of st.session_state.detected_foods is an identifier of
\* the active catalog, whatever the caption or the vision API's answer and
\* whatever the catalog, compound dishes included.
C1_DetectedInCatalog ==
  \A i \in DOMAIN detected_foods : InList(detected_foods[i], available_foods)

\* C2 (as the spec states it): a caption with one keyword of each group
\* {"rice","bowl"}, {"egg"}, {"chicken","meat"}, matched against a catalog that
\* holds Oyakodon, gives a result that holds Oyakodon.
C2_GroupsYieldOyakodon ==
  ( /\ variant = "Streamlitapp" /\ CaptionAnalyzed
    /\ InList("Oyakodon", available_foods)
    /\ LET text == ScannedText
       IN  /\ Contains("rice", text) \/ Contains("bowl", text)
           /\ Contains("egg", text)
           /\ Contains("chicken", text) \/ Contains("meat", text) )
  => InList("Oyakodon", detected)

\* C2 (amended): a caption that holds "rice", "egg" and one of "chicken",
\* "meat", matched against a catalog that holds Oyakodon, gives a result that
\* holds Oyakodon; "bowl" does not stand in for "rice".
C2_RiceEggChickenYieldOyakodon ==
  ( /\ variant = "Streamlitapp" /\ CaptionAnalyzed
    /\ InList("Oyakodon", available_foods)
    /\ LET text == ScannedText
       IN  /\ Contains("rice", text)
           /\ Contains("egg", text)
           /\ Contains("chicken", text) \/ Contains("meat", text) )
  => InList("Oyakodon", detected)

\* the spec's example caption has been analyzed against a catalog with Oyakodon
C2_Witness ==
  /\ variant = "Streamlitapp" /\ CaptionAnalyzed
  /\ image.text = "a bowl of rice with egg and chicken on top"
  /\ InList("Oyakodon", available_foods)
  /\ InList("Oyakodon", detected_foods)

\* C3: after the keyword loop over the lower-cased text, an identifier is in
\* the loop's list exactly when some keyword that maps to it is a substring of
\* the text and the identifier is a catalog food.
C3_ScanIffSubstringAndCatalog ==
  CaptionAnalyzed =>
    LET text == ScannedText
        hints == ScannedHints
        named == { i \in DOMAIN hints : Contains(hints[i][1], text) }
    IN  \A id \in Range(scan) \cup { hints[i][2] : i \in DOMAIN hints } :
          InList(id, scan)
            <=> ( /\ \E i \in named : hints[i][2] = id
                  /\ InList(id, available_foods) )

\* "egg" inside "eggplant" has produced Tamago
C3_Witness ==
  /\ variant = "Streamlitapp" /\ CaptionAnalyzed
  /\ image.text = "eggplant"
  /\ scan = << "Tamago" >>

\* C4: after the analysis of a text that holds no keyword of the table, the
\* matcher's result is empty, manual_mode is true and the run raised nothing.
C4_NoKeywordGivesEmptyAndManual ==
  ( /\ CaptionAnalyzed
    /\ LET text == ScannedText
       IN  \A i \in DOMAIN ScannedHints : ~Contains(ScannedHints[i][1], text) ) =>
    (detected = << >> /\ manual_mode /\ ~uncaught)

\* a caption of words that are no keywords has been analyzed
C4_Witness ==
  /\ variant = "Streamlitapp" /\ CaptionAnalyzed
  /\ image.text = "an empty plate"
  /\ detected = << >>
  /\ manual_mode

\* C5: st.session_state.detected_foods holds no identifier twice, whatever the
\* caption or the vision API's answer.
C5_DetectedWithoutRepeats == NoDuplicates(detected_foods)

\* C6: the result of the analysis of several candidate captions holds every
\* identifier the matcher gives for any one candidate alone.
C6_ConcatenationCoversEachCandidate ==
  (variant = "stleamlit_app" /\ CaptionAnalyzed) =>
    \A i \in DOMAIN image.texts :
      Range(DetectedVit(lower(image.texts[i]), available_foods)) \subseteq Range(detected)

\* two candidates that name different foods have been analyzed
C6_Witness ==
  /\ variant = "stleamlit_app" /\ CaptionAnalyzed
  /\ image.texts = << "a bowl of rice", "grilled chicken meat" >>
  /\ Range(detected_foods) = { "Gohan", "Toriniku" }

(***************************************************************************)
(* Properties of the catalog load (SpecCatalog).                           *)
(***************************************************************************)
\* C7: after the load of a table, the catalog lists each identifier of the
\* table once and holds for it the nutrient values of the last row that
\* carries it.
C7_LastRowWins ==
  (phase = "ready" /\ csv.status = "ok") =>
    /\ NoDuplicates(available_foods)
    /\ Range(available_foods) = { csv.rows[i].food : i \in DOMAIN csv.rows }
    /\ DOMAIN nutrition_dict = { csv.rows[i].food : i \in DOMAIN csv.rows }
    /\ \A i \in DOMAIN csv.rows :
         (\A j \in DOMAIN csv.rows : j > i => csv.rows[j].food # csv.rows[i].food)
           => nutrition_dict[csv.rows[i].food] = csv.rows[i].vec

\* a table with two rows for Gohan of different values has been loaded
C7_Witness ==
  /\ phase = "ready" /\ csv.status = "ok"
  /\ Len(csv.rows) = 3
  /\ csv.rows[1].food = "Gohan" /\ csv.rows[3].food = "Gohan"
  /\ csv.rows[1].vec # csv.rows[3].vec
  /\ nutrition_dict["Gohan"] = csv.rows[3].vec

\* C8: after the load of a missing or malformed table the script goes on with
\* the built-in default catalog, and the load raised nothing.
C8_LoadFailsSoft ==
  (phase # "boot" /\ csv.status # "ok") =>
    /\ phase = "ready"
    /\ ~uncaught
    /\ nutrition_dict = ToDict(DefaultRows(variant))
    /\ available_foods = FoodColumn(DefaultRows(variant))

(***************************************************************************)
(* Properties of the aggregation (Spec).                                   *)
(***************************************************************************)
\* C9: every calculation leaves as the meal vector the pointwise sum, in
\* selection order, of the catalog vectors of the selected identifiers the
\* catalog holds; the other identifiers add nothing, and the run raises nothing.
C9_UnknownFoodsSkipped ==
  [][ meals' = meals + 1 =>
        LET known == SelectSeq(selected_foods', LAMBDA f : f \in DOMAIN nutrition_dict)
            total[n \in 0..Len(known)] ==
              IF n = 0 THEN ZeroVec
              ELSE [k \in NutrientKeys |->
                      total[n - 1][k] + nutrition_dict[known[n]][k]]
        IN  last_added_nutrition' = total[Len(known)] /\ ~uncaught' ]_vars

\* a selection of a catalog food and of a food the catalog lacks has been
\* calculated
C9_Witness ==
  /\ data_added
  /\ selected_foods = << "Meronpan", "Gohan" >>
  /\ "Meronpan" \notin DOMAIN nutrition_dict
  /\ last_added_nutrition = nutrition_dict["Gohan"]

(***************************************************************************)
(* The summation as Python computes it.  The fat, protein and carbohydrate *)
(* values are floats (IEEE-754 binary64) and `+=` rounds each partial sum  *)
(* to the nearest binary64, ties to even.  A value is held here as its     *)
(* bits: x[i] is the bit of weight 2^(i - 61), i in 1..70, which holds     *)
(* every binary64 between 2^-4 and 2^9 and its sums exactly.  The calories *)
(* are ints, which the same format holds exactly.                          *)
(***************************************************************************)
Float64Zero == [i \in 1..70 |-> 0]

\* the place of the leading one, 0 for zero
Msb(x) ==
  IF \A i \in DOMAIN x : x[i] = 0 THEN 0
  ELSE CHOOSE i \in DOMAIN x : x[i] = 1 /\ \A j \in DOMAIN x : j > i => x[j] = 0

RECURSIVE AddBitsFrom(_, _, _, _)
\* the bits of x + y from place i upwards, carry being carried into place i
AddBitsFrom(x, y, i, carry) ==
  IF i > Len(x) THEN << >>
  ELSE << (x[i] + y[i] + carry) % 2 >>
       \o AddBitsFrom(x, y, i + 1, (x[i] + y[i] + carry) \div 2)

\* the exact sum of two bit strings
AddBits(x, y) == AddBitsFrom(x, y, 1, 0)

\* rounding to 53 significant bits, to nearest, ties to even
Round53(x) ==
  LET drop == Msb(x) - 53
  IN  IF drop <= 0 THEN x
      ELSE LET kept == [i \in 1..Len(x) |-> IF i > drop THEN x[i] ELSE 0]
               ulp == [i \in 1..Len(x) |-> IF i = drop + 1 THEN 1 ELSE 0]
               half == x[drop] = 1
               sticky == \E i \in 1..(drop - 1) : x[i] = 1
               odd == x[drop + 1] = 1
           IN  IF half /\ (sticky \/ odd) THEN AddBits(kept, ulp) ELSE kept

\* float.__add__
Add64(a, b) == Round53(AddBits(a, b))

RECURSIVE FractionBits(_, _)
\* the bits of r / 10 of weight 2^-j down to 2^-60, highest first; what lies
\* below 2^-60 is kept as a one in the lowest place
FractionBits(r, j) ==
  IF j = 60 THEN << (IF (2 * r) \div 10 = 1 \/ (2 * r) % 10 # 0 THEN 1 ELSE 0) >>
  ELSE << (2 * r) \div 10 >> \o FractionBits((2 * r) % 10, j + 1)

\* the binary64 of a decimal literal of n tenths (168 -> 1680, 2.5 -> 25):
\* the binary expansion of n / 10 by long division, rounded
Float64OfTenths(n) ==
  LET fraction == FractionBits(n % 10, 1)
  IN  Round53([i \in 1..70 |->
                 IF i >= 61 THEN ((n \div 10) \div (2 ^ (i - 61))) % 2
                 ELSE fraction[61 - i]])

\* the catalog with its values as the floats Python holds
Float64Dict(dict) ==
  [f \in DOMAIN dict |-> [k \in NutrientKeys |-> Float64OfTenths(dict[f][k])]]

\* the meal vector of the calculate handler, in binary64
sumFoods64(selected, dict) ==
  LET floats == Float64Dict(dict)
      acc[i \in 0..Len(selected)] ==
        IF i = 0 THEN [k \in NutrientKeys |-> Float64Zero]
        ELSE IF selected[i] \in DOMAIN dict
             THEN [k \in NutrientKeys |-> Add64(acc[i - 1][k], floats[selected[i]][k])]
             ELSE acc[i - 1]
  IN  acc[Len(selected)]

\* the foods of the built-in catalog of streamlit_app.py
DemoFoods == Range(FoodColumn(DefaultRowsDemo))

\* the calculate handler's loop over the selection sel
SumSelection(sel) ==
  /\ phase = "ready"
  /\ f_meal = << >>
  /\ f_selection' = sel
  /\ f_meal' = << sumFoods64(sel, nutrition_dict) >>
  /\ UNCHANGED << configVars, phase, uncaught, catalogVars, image, detectionVars,
                  nutritionVars, show_total_chart, backendVars, call,
                  view, save_button, catalog_loads, model_loads >>

InitSum ==
  /\ InitSession
  /\ auth_ready = TRUE
  /\ store = << >>
  /\ csv = File("missing", << >>)
  /\ image = NoImage

NextSum ==
  \/ Startup
  \/ \E sel \in Selections(DemoFoods, MaxSummands) : SumSelection(sel)

\* the meal vector of every selection of the built-in catalog's foods
SpecSum == InitSum /\ [][NextSum]_vars

\* C10: the meal vector of a selection is the meal vector of every
\* permutation of the selection.
C10_OrderIndependent ==
  f_meal # << >> =>
    \A p \in Orderings(Range(f_selection)) :
      sumFoods64(p, nutrition_dict) = f_meal[1]

(***************************************************************************)
(* Properties of the accumulation (Spec, SpecSave).                        *)
(***************************************************************************)
\* the step is a calculation with a selection that is not empty
CalculateStep == meals' = meals + 1

\* C11: the daily total after the calculate action is pointwise greater than
\* or equal to the daily total before it, for every total and selection (the
\* catalogs hold no negative value).
C11_CalculateGrowsTotal ==
  [][ CalculateStep =>
        \A k \in NutrientKeys : total_nutrition_for_day'[k] >= total_nutrition_for_day[k]
    ]_vars

\* a second meal was added to a total that was not zero
C11_Witness ==
  /\ meals = 2 /\ data_added
  /\ last_added_nutrition.calories > 0
  /\ total_nutrition_for_day.calories > last_added_nutrition.calories

\* C12: after any sequence of analyze, calculate, toggle, reset and save
\* actions every component of the daily total and of the last meal's vector
\* is non-negative (the catalogs hold no negative value).
C12_NothingNegative ==
  \A k \in NutrientKeys :
    total_nutrition_for_day[k] >= 0 /\ last_added_nutrition[k] >= 0

\* an analysis, a calculation, a toggle, a reset and a save have happened
C12_Witness ==
  /\ analyzed /\ meals > 0 /\ saves > 0 /\ ~show_total_chart
  /\ total_nutrition_for_day = ZeroVec
  /\ last_added_nutrition.calories > 0

(***************************************************************************)
(* Properties of the report (SpecRender, Spec).                            *)
(***************************************************************************)
\* every chart value of the report is current / target * 100, or 0 for a
\* target that is not positive, cut off at top
ChartValuesClampedAt(top) ==
  \A k \in NutrientKeys :
    LET c == view.current[k]
        t == view.target[k]
        p == view.values[k]
    IN  /\ p.den > 0 /\ p.num >= 0 /\ p.num <= top * p.den
        /\ IF t <= 0 THEN p.num = 0
           ELSE IF 100 * c > top * t THEN p = [num |-> top, den |-> 1]
           ELSE p.num * t = 100 * c * p.den

\* C13 as stated: each displayed percentage is current / target * 100 (0 for
\* a target that is not positive) clamped to the ceiling 120, so it lies in
\* [0, 120], and 1000 g of protein against a target of 60 g shows 120.
C13_ClampedAt120 ==
  view.shown =>
    /\ ChartValuesClampedAt(120)
    /\ (view.current.protein = 10000 /\ view.target.protein = 600)
         => view.values.protein = [num |-> 120, den |-> 1]

\* C13, amended: each displayed percentage is current / target * 100 (0 for a
\* target that is not positive) clamped to the ceiling of the variant, 100 in
\* streamlit_app.py and 120 in the other three, so it lies in [0, ceiling],
\* and 1000 g of protein against a target of 60 g shows the ceiling.
C13_ClampedAtCeiling ==
  view.shown =>
    LET top == IF variant = "streamlit_app" THEN 100 ELSE 120
    IN  /\ ChartValuesClampedAt(top)
        /\ (view.current.protein = 10000 /\ view.target.protein = 600)
             => view.values.protein = [num |-> top, den |-> 1]

\* the daily chart shows 1000 g of protein at 120 and the fat below it
C13_Witness ==
  /\ view.shown /\ view.mode = "daily"
  /\ view.current.protein = 10000
  /\ view.values.protein = [num |-> 120, den |-> 1]
  /\ view.values.fat = [num |-> 0, den |-> 1]

\* C14: in meal mode the target is the daily recommended vector times the
\* ratio of the last selected meal type (breakfast 0.25, lunch 0.35, dinner
\* 0.30, snack 0.10) and the current vector is the last meal's; in daily mode
\* the target is the daily vector itself and the current vector is the daily
\* total.
C14_ModeSelectsVectors ==
  view.shown =>
    LET hundredths == CASE last_selected_meal_type = "Choshoku" -> 25
                        [] last_selected_meal_type = "Chushoku" -> 35
                        [] last_selected_meal_type = "Yushoku" -> 30
                        [] last_selected_meal_type = "Oyatsu" -> 10
        daily == Vec(20000, 600, 500, 3000)
    IN  /\ (view.mode = "daily") <=> show_total_chart
        /\ view.mode = "daily" =>
             view.target = daily /\ view.current = total_nutrition_for_day
        /\ view.mode = "meal" =>
             /\ view.current = last_added_nutrition
             /\ \A k \in NutrientKeys : 100 * view.target[k] = daily[k] * hundredths

\* the chart of a dinner: 30% of the daily targets, against a last meal that
\* is not the day's total
C14_Witness ==
  /\ view.shown /\ view.mode = "meal"
  /\ last_selected_meal_type = "Yushoku"
  /\ view.target = Vec(6000, 180, 150, 900)
  /\ view.current # total_nutrition_for_day

\* the variants whose advice is an if/elif chain on the daily total
ChainVariants == {"Streamlitapp", "stleamlit_app"}

\* C15: when the current vector is all zeros the advice is "no data yet",
\* whatever the target.
C15_ZeroGivesNoData ==
  (view.shown /\ variant \in ChainVariants /\ total_nutrition_for_day = ZeroVec)
    => view.advice = << "no_data" >>

\* C16: whenever the calories of the daily total exceed the daily target
\* calories the advice is "over-target", whatever the protein, fat and
\* carbohydrates are.
C16_OverTargetFirst ==
  (view.shown /\ variant \in ChainVariants
     /\ total_nutrition_for_day.calories > 20000)
    => view.advice = << "over_target" >>

\* over the calorie target with protein under half its target and
\* carbohydrates over 80% of theirs, in the three-branch chain
C16_Witness ==
  /\ view.shown /\ variant = "stleamlit_app"
  /\ total_nutrition_for_day.calories > 20000
  /\ total_nutrition_for_day.protein < 300
  /\ total_nutrition_for_day.carbohydrates > 2400
  /\ view.advice = << "over_target" >>

\* C17: the advice is a total, deterministic first-match-wins function of the
\* daily total and target: exactly one of five categories, in the order
\* no-data (calories = 0), over-target (calories > target), protein-low
\* (protein < 50% of target), carbohydrates-on-track (carbohydrates > 80% of
\* target), balanced; with 0 < calories <= target, protein < 50% and
\* carbohydrates > 80% it is protein-low.
C17_FirstMatchWins ==
  (view.shown /\ variant = "Streamlitapp") =>
    LET t == total_nutrition_for_day
        none == t.calories = 0
        over == t.calories > 20000
        protein == 10 * t.protein < 5 * 600
        carbs == 10 * t.carbohydrates > 8 * 3000
        a == view.advice[1]
    IN  /\ Len(view.advice) = 1
        /\ a \in {"no_data", "over_target", "protein_low",
                  "carbohydrates_on_track", "balanced"}
        /\ (a = "no_data") <=> none
        /\ (a = "over_target") <=> (~none /\ over)
        /\ (a = "protein_low") <=> (~none /\ ~over /\ protein)
        /\ (a = "carbohydrates_on_track") <=> (~none /\ ~over /\ ~protein /\ carbs)
        /\ (a = "balanced") <=> (~none /\ ~over /\ ~protein /\ ~carbs)

\* calories within the target, protein under half, carbohydrates over 80%:
\* the protein branch wins
C17_Witness ==
  /\ view.shown /\ variant = "Streamlitapp"
  /\ total_nutrition_for_day.calories > 0
  /\ total_nutrition_for_day.calories <= 20000
  /\ total_nutrition_for_day.protein < 300
  /\ total_nutrition_for_day.carbohydrates > 2400
  /\ view.advice = << "protein_low" >>

\* C18: the advice depends only on the daily total and the daily target:
\* toggling the display mode between the daily chart and the last meal's
\* never changes the advice shown.
C18_ToggleKeepsAdvice ==
  [][ (show_total_chart' # show_total_chart /\ view.shown /\ view'.shown)
        => view'.advice = view.advice ]_vars

\* a percentage to one decimal, in tenths of percent
OneDecimal(p) == (20 * p.num + p.den) \div (2 * p.den)

\* C19: with the catalog entry 168 kcal, 2.5 g, 0.3 g, 37.1 g for rice and the
\* selection [rice], one calculate action from a zero daily total gives that
\* vector as the meal and as the daily total, and the daily chart against
\* (2000, 60, 50, 300) shows 8.4, 4.2, 0.6 and 12.4 percent to one decimal,
\* none of them changed by the clamp.
C19_RiceScenario ==
  [][ ( /\ CalculateStep
        /\ total_nutrition_for_day = ZeroVec
        /\ selected_foods' = << "Gohan" >>
        /\ "Gohan" \in DOMAIN nutrition_dict
        /\ nutrition_dict["Gohan"] = Vec(1680, 25, 3, 371) )
      => /\ last_added_nutrition' = Vec(1680, 25, 3, 371)
         /\ total_nutrition_for_day' = Vec(1680, 25, 3, 371)
         /\ (view'.shown /\ view'.mode = "daily") =>
              /\ view'.target = Vec(20000, 600, 500, 3000)
              /\ [k \in NutrientKeys |-> OneDecimal(view'.values[k])]
                   = Vec(84, 42, 6, 124)
              /\ \A k \in NutrientKeys :
                   view'.values[k].num * view'.target[k]
                     = 100 * view'.current[k] * view'.values[k].den
    ]_vars

\* the daily chart of streamlit_app.py after the one rice meal
C19_Witness ==
  /\ variant = "streamlit_app" /\ meals = 1
  /\ selected_foods = << "Gohan" >>
  /\ total_nutrition_for_day = Vec(1680, 25, 3, 371)
  /\ view.shown /\ view.mode = "daily"
  /\ view.values.protein = [num |-> 25, den |-> 6]

(***************************************************************************)
(* Properties of the history (SpecHistory).                                *)
(***************************************************************************)
\* the history has been read from the store: by the first script run of
\* streamlit_app.py, by the save callback in every variant
HistoryLoaded ==
  auth_ready /\ (saves > 0 \/ (variant = "streamlit_app" /\ phase # "boot"))

\* C20: for every collection of stored records, in whatever order the store
\* returns them, the history holds exactly one entry per meal type present in
\* the store, and that entry is the record with the greatest timestamp among
\* the records of that meal type.
C20_HistoryKeepsNewest ==
  HistoryLoaded =>
    /\ DOMAIN history = { store[i].meal_type : i \in DOMAIN store }
    /\ \A t \in DOMAIN history :
         /\ \E i \in DOMAIN store : store[i] = history[t] /\ store[i].meal_type = t
         /\ \A j \in DOMAIN store :
              store[j].meal_type = t => store[j].timestamp <= history[t].timestamp

(***************************************************************************)
(* Saving.                                                                 *)
(***************************************************************************)
\* a press of the save button
SaveStep == saves' = saves + 1

C22_DisconnectedNeverWrites ==
  [][~auth_ready =>
       /\ store' = store
       /\ CalculateStep =>
            LET meal == sumFoods(selected_foods', nutrition_dict)
            IN  /\ total_nutrition_for_day' = accumulate(total_nutrition_for_day, meal)
                /\ last_added_nutrition' = meal
                /\ last_selected_meal_type' \in UserMealTypes
                /\ data_added']_vars

C22_Witness ==
  /\ ~auth_ready /\ data_added /\ meals = 2
  /\ total_nutrition_for_day # ZeroVec
  /\ total_nutrition_for_day # last_added_nutrition
  /\ view.shown /\ store = << >>

(***************************************************************************)
(* Failures of the vision call.                                            *)
(***************************************************************************)
\* the vision call of the analysis is made and fails: the model or the SDK
\* raises, or analyze_image_with_gemini returns None
VisionFails ==
  /\ image.kind \in {"error", "api_none"}
  /\ variant = "streamlit_app" => api_key

\* C23: an auto-analyze step whose vision call fails ends with no detected
\* food (an earlier result is discarded), with manual_mode true and with the
\* daily total unchanged
C23_FailedAnalysisFallsBack ==
  [][(AutoAnalyze /\ VisionFails) =>
       /\ detected_foods' = << >>
       /\ manual_mode'
       /\ total_nutrition_for_day' = total_nutrition_for_day]_vars

\* C24: no failure of the vision call and no failure of the store write
\* leaves the handler it happened in: the analysis and the save end without
\* an uncaught exception
C24_NoFailurePropagates ==
  [][(AutoAnalyze \/ SaveStep) => ~uncaught']_vars

(***************************************************************************)
(* Caches.                                                                 *)
(***************************************************************************)
\* C25: over all script runs and sessions of one process the vision model
\* is loaded at most once and the nutrient table is read at most once
C25_LoadedAtMostOnce ==
  catalog_loads <= 1 /\ model_loads <= 1

(***************************************************************************)
(* The retry loop of analyze_image_with_gemini.                            *)
(***************************************************************************)
\* the call has sent only requests that failed
AllFailed ==
  \A i \in 1..call.posts : call.outcomes[i] = "request_exception"

\* what holds of the call frame at every moment
RetryBounded ==
  /\ call.posts <= MaxAttempts
  /\ Len(call.sleeps) <= 4
  /\ call.sleeps = SubSeq(<< 1, 2, 4, 8 >>, 1, Len(call.sleeps))
  /\ call.state = "running" => Len(call.sleeps) = call.posts
  /\ call.state = "done" =>
       /\ call.posts >= 1
       /\ Len(call.sleeps) = call.posts - 1
       /\ call.result \in {"returned_result", "returned_none", "raised"}
       /\ AllFailed =>
            call.posts = MaxAttempts /\ call.result = "returned_none"

C30_RetryOnlyAfterRequestFailure ==
  [][/\ (call.state = "running" /\ call'.posts # call.posts) =>
          /\ call'.posts = call.posts + 1
          /\ call'.state = "running" => call'.outcomes[call'.posts] = "request_exception"
          /\ call'.outcomes[call'.posts] \in {"no_candidates", "text_not_json"} =>
               call'.state = "done" /\ call'.result = "returned_none"
          /\ call'.outcomes[call'.posts] = "parsed" =>
               call'.state = "done" /\ call'.result = "returned_result"
     /\ call.state # "running" => call'.posts = call.posts]_vars

C30_Witness ==
  /\ call.state = "done" /\ call.posts = 3
  /\ call.outcomes = << "request_exception", "request_exception", "no_candidates" >>
  /\ call.result = "returned_none"
  /\ call.sleeps = << 1, 2 >>

(***************************************************************************)
(* The daily total and the stored records.                                 *)
(***************************************************************************)
RECURSIVE SumKey(_, _)
\* the sum of nutrient k over the vectors of log
SumKey(log, k) ==
  IF log = << >> THEN 0
  ELSE LET head == log[1][k]
       IN  head + SumKey(Tail(log), k)

\* the pointwise sum of the vectors of log
PointwiseSum(log) == [k \in NutrientKeys |-> SumKey(log, k)]

\* C27: the daily total is the pointwise sum of the meal vectors of the
\* calculations since the last reset (two calculations of one selection add
\* the meal twice); a step that is neither a calculation nor a reset (which
\* clears data_added and the total), such as analysis, chart toggle or save,
\* leaves it alone
C27_TotalIsSumOfMeals ==
  /\ [](total_nutrition_for_day = PointwiseSum(meal_log))
  /\ [][total_nutrition_for_day' # total_nutrition_for_day =>
          \/ CalculateStep
          \/ data_added /\ ~data_added' /\ total_nutrition_for_day' = ZeroVec]_vars

C27_Witness ==
  /\ Len(meal_log) = 2 /\ meal_log[1] = meal_log[2]
  /\ meal_log[1] # ZeroVec
  /\ total_nutrition_for_day = [k \in NutrientKeys |-> 2 * last_added_nutrition[k]]
  /\ saves > 0

\* C28: a save that writes stores exactly one record, and the record
\* carries the meal type (one of the four) and the meal vector of the most
\* recent calculation, not the daily total
C28_RecordIsLastMeal ==
  [][(SaveStep /\ save_status' = "saved") =>
       /\ last_selected_meal_type \in MealTypes
       /\ \E i \in 1..(Len(store) + 1) :
            store' = InsertAt(store, i, Record(last_selected_meal_type,
                                               last_added_nutrition,
                                               ServerTimestamp(store)))]_vars

\* C29: the save button is on the page only where data_added is true and a
\* record is written only there, so after a reset nothing is written before
\* a new calculation of a non-empty selection; a calculation of an empty
\* selection changes no session value (data_added included)
C29_SaveOnlyAfterCalculation ==
  /\ [](save_button # << >> => data_added)
  /\ [][/\ store' # store => data_added
        /\ (\E mt \in UserMealTypes : Calculate(<< >>, mt)) =>
             UNCHANGED << nutritionVars, detectionVars, show_total_chart >>]_vars
====
